---- MODULE Spec2Model ----
(***************************************************************************)
(* Verification model of the Taxentia ingestion core:                      *)
(*   - ingestion/utils/hashing.py       (string_to_numeric_id)             *)
(*   - ingestion/processors/chunker.py  (TextChunker)                      *)
(*   - ingestion/processors/embeddings.py (EmbeddingsService)              *)
(*                                                                         *)
(* Texts are sequences of one-character strings.  A 32-bit quantity is a   *)
(* pair <<hi, lo>> of 16-bit limbs standing for hi * 65536 + lo, because   *)
(* the model checker's integers are themselves 32-bit signed.              *)
(***************************************************************************)
EXTENDS Integers, Sequences, FiniteSets, TLC

VARIABLES
    \* string_to_numeric_id
    s, numeric_id, hpc,
    \* TextChunker._clean_text
    raw, cleaned, recleaned, passes,
    \* TextChunker.chunk_document
    text, max_chunk_size, overlap_size, use_nltk, chunks, cpc,
    \* history of the call: the buffer and the overlap text of every flush
    flushes,
    \* EmbeddingsService: configuration and input
    in_chunks, batch_size, max_tokens_per_batch, encoding,
    \* EmbeddingsService.generate_embeddings: locals, position, outcome
    batches, batch_idx, embedded_chunks, epc, result, error,
    \* history of the run: requests per batch, 5 s waits per batch, whether
    \* the provider ever returned a vector of the wrong length, and the
    \* position at which a cancellation arrived
    sends, waits, bad_vector_seen, cancelled_at

hashVars  == <<s, numeric_id, hpc>>
cleanVars == <<raw, cleaned, recleaned, passes>>
chunkVars == <<text, max_chunk_size, overlap_size, use_nltk, chunks, flushes, cpc>>
embedVars == <<in_chunks, batch_size, max_tokens_per_batch, encoding,
               batches, batch_idx, embedded_chunks, epc, result, error,
               sends, waits, bad_vector_seen, cancelled_at>>
vars == <<hashVars, cleanVars, chunkVars, embedVars>>

(***************************************************************************)
(* Bounds of the model.                                                    *)
(***************************************************************************)
MaxIdLen  == 6      \* longest string id that is hashed
MaxRawLen == 6      \* longest raw text that is normalized
MaxDocLen == 7      \* longest document that is chunked
MaxChunkSize == 4   \* largest max_chunk_size
MaxOverlap == 2     \* largest overlap_size
MaxChunks == 4      \* most chunks handed to the embeddings service
MaxBatchSize == 2   \* largest batch_size

\* all sequences over A of length at most n
RECURSIVE SeqsUpTo(_, _)
SeqsUpTo(A, n) ==
    IF n = 0 THEN { <<>> }
    ELSE LET shorter == SeqsUpTo(A, n - 1)
         IN  shorter \cup { Append(t, c) : t \in { u \in shorter : Len(u) = n - 1 }, c \in A }

(***************************************************************************)
(* hashing.py                                                              *)
(***************************************************************************)
Limb == 65536

\* one step of the loop body, lines 44 and 47:
\*   hash_val = ((hash_val << 5) - hash_val) + ord(char)
\*   hash_val = hash_val & 0xFFFFFFFF
\* Python integers are unbounded, so (h << 5) - h is exactly 31 * h and the
\* mask keeps the low 32 bits of 31 * h + ord(char).
HashStep(h, code) ==
    LET lo == h[2] * 31 + code
        hi == h[1] * 31 + (lo \div Limb)
    IN  << hi % Limb, lo % Limb >>

RECURSIVE HashLoop(_, _, _)
HashLoop(str, i, h) ==
    IF i > Len(str) THEN h ELSE HashLoop(str, i + 1, HashStep(h, str[i]))

\* abs() of a value that the mask left in 0 .. 2^32 - 1: the value itself
PyAbsMasked(h) == h

\* the 32-bit pattern read as a signed two's-complement integer, then its
\* absolute value (what Math.abs(hash) gives in the TypeScript reference)
AbsSigned32(h) ==
    IF h[1] < Limb \div 2 THEN h
    ELSE IF h[2] = 0 THEN << (Limb - h[1]) % Limb, 0 >>
         ELSE << Limb - 1 - h[1], Limb - h[2] >>

\* string_to_numeric_id(s), s given as the sequence of ord(char)
string_to_numeric_id(str) == PyAbsMasked(HashLoop(str, 1, <<0, 0>>))

\* code points of '-', '0', 'c', 'u' (characters of chunk ids such as "usc-...-chunk-0")
IdCodes == {45, 48, 99, 117}
IdStrings == SeqsUpTo(IdCodes, MaxIdLen)

HashInit == /\ s \in IdStrings
            /\ numeric_id = <<>>
            /\ hpc = "start"
HashIdle == /\ s = <<>>
            /\ numeric_id = <<>>
            /\ hpc = "idle"

\* a call string_to_numeric_id(s)
StringToNumericId ==
    /\ hpc = "start"
    /\ numeric_id' = string_to_numeric_id(s)
    /\ hpc' = "done"
    /\ UNCHANGED <<s, cleanVars, chunkVars, embedVars>>

(***************************************************************************)
(* chunker.py: text primitives                                             *)
(***************************************************************************)
\* characters str.strip() removes (of those the model's texts use)
Whitespace == {" ", "\n", "\t"}

\* the elements of t at the indices in keep, in order
KeepIdx(t, keep) ==
    LET F[i \in 0..Len(t)] ==
            IF i = 0 THEN <<>>
            ELSE IF i \in keep THEN Append(F[i - 1], t[i]) ELSE F[i - 1]
    IN  F[Len(t)]

\* re.sub(r"\n\n+", "\n\n", text): the third and later newline of a run go
CollapseNewlines(t) ==
    KeepIdx(t, { i \in 1..Len(t) :
                   ~(t[i] = "\n" /\ i >= 3 /\ t[i - 1] = "\n" /\ t[i - 2] = "\n") })

\* re.sub(r" +", " ", text): the second and later space of a run go
CollapseSpaces(t) ==
    KeepIdx(t, { i \in 1..Len(t) : ~(t[i] = " " /\ i >= 2 /\ t[i - 1] = " ") })

\* str.strip()
Strip(t) ==
    LET solid == { i \in 1..Len(t) : t[i] \notin Whitespace }
    IN  IF solid = {} THEN <<>>
        ELSE SubSeq(t, CHOOSE i \in solid : \A j \in solid : i <= j,
                       CHOOSE i \in solid : \A j \in solid : i >= j)

\* _clean_text without the final strip (a mutation of _clean_text)
_clean_text_no_strip(t) == CollapseSpaces(CollapseNewlines(t))

\* TextChunker._clean_text
_clean_text(t) == Strip(CollapseSpaces(CollapseNewlines(t)))

RawAlphabet == {"a", " ", "\n", "\t"}
RawTexts == SeqsUpTo(RawAlphabet, MaxRawLen)

CleanInit == /\ raw \in RawTexts
             /\ cleaned = <<>>
             /\ recleaned = <<>>
             /\ passes = 0
CleanIdle == /\ raw = <<>>
             /\ cleaned = <<>>
             /\ recleaned = <<>>
             /\ passes = -1

\* text = self._clean_text(text)
Normalize ==
    /\ passes = 0
    /\ cleaned' = _clean_text(raw)
    /\ passes' = 1
    /\ UNCHANGED <<raw, recleaned, hashVars, chunkVars, embedVars>>

\* the already-normalized text is normalized again
Renormalize ==
    /\ passes = 1
    /\ recleaned' = _clean_text(cleaned)
    /\ passes' = 2
    /\ UNCHANGED <<raw, cleaned, hashVars, chunkVars, embedVars>>

(***************************************************************************)
(* chunker.py: TextChunker                                                 *)
(***************************************************************************)
\* the characters of the fallback pattern's class [.!?]
Terminators == {".", "!", "?"}

Min(a, b) == IF a <= b THEN a ELSE b

\* Python's t[-n:] for n >= 0; -0 is 0, so t[-0:] is the whole of t
LastChars(t, n) ==
    IF n = 0 \/ n >= Len(t) THEN t ELSE SubSeq(t, Len(t) - n + 1, Len(t))

\* Python's t[:k] for k >= 0
FirstChars(t, k) == SubSeq(t, 1, Min(k, Len(t)))

\* str.rfind(" "): the 0-based index of the last space, or -1
RFindSpace(t) ==
    LET at == { i \in 1..Len(t) : t[i] = " " }
    IN  IF at = {} THEN -1 ELSE (CHOOSE i \in at : \A j \in at : i >= j) - 1

\* text.split("\n\n"): the pieces between the separators, found left to right
RECURSIVE SplitParagraphs(_, _, _)
SplitParagraphs(t, from, i) ==
    IF i > Len(t) THEN << SubSeq(t, from, Len(t)) >>
    ELSE IF i < Len(t) /\ t[i] = "\n" /\ t[i + 1] = "\n"
         THEN << SubSeq(t, from, i - 1) >> \o SplitParagraphs(t, i + 2, i + 2)
         ELSE SplitParagraphs(t, from, i + 1)

\* re.findall(r"[^.!?]*[.!?]+", text): each match runs from the end of the
\* match before it to the end of the next run of terminators; what follows
\* the last terminator matches nothing
RECURSIVE FindSentenceMatches(_, _, _)
FindSentenceMatches(t, from, i) ==
    IF i > Len(t) THEN <<>>
    ELSE IF t[i] \in Terminators /\ (i = Len(t) \/ t[i + 1] \notin Terminators)
         THEN << SubSeq(t, from, i) >> \o FindSentenceMatches(t, i + 1, i + 1)
         ELSE FindSentenceMatches(t, from, i + 1)

\* nltk's sent_tokenize on plain sentences: a sentence ends at a terminator
\* that is followed by whitespace and further text; the whitespace between
\* two sentences belongs to neither
RECURSIVE sent_tokenize(_, _, _)
sent_tokenize(t, from, i) ==
    IF from > Len(t) THEN <<>>
    ELSE IF t[from] \in Whitespace THEN sent_tokenize(t, from + 1, from + 1)
    ELSE IF i >= Len(t) THEN << Strip(SubSeq(t, from, Len(t))) >>
    ELSE IF /\ t[i] \in Terminators
            /\ t[i + 1] \in Whitespace
            /\ \E j \in (i + 1)..Len(t) : t[j] \notin Whitespace
         THEN << SubSeq(t, from, i) >> \o sent_tokenize(t, i + 1, i + 1)
         ELSE sent_tokenize(t, from, i + 1)

\* the grouping loop of lines 234-245 (joiner = <<" ">>, no strip) and of
\* lines 257-267 (joiner = <<>>, groups stripped), from unit k on
RECURSIVE GroupUnits(_, _, _, _, _, _, _)
GroupUnits(units, k, current, out, joiner, strip, maxsz) ==
    IF k > Len(units)
    THEN IF current # <<>>
         THEN Append(out, IF strip THEN Strip(current) ELSE current)
         ELSE out
    ELSE IF Len(current) + Len(units[k]) <= maxsz
         THEN GroupUnits(units, k + 1,
                         IF current # <<>> THEN current \o joiner \o units[k] ELSE units[k],
                         out, joiner, strip, maxsz)
         ELSE GroupUnits(units, k + 1, units[k],
                         IF current # <<>>
                         THEN Append(out, IF strip THEN Strip(current) ELSE current)
                         ELSE out,
                         joiner, strip, maxsz)

\* the sentences the splitter in use sees in a paragraph
SentencesOf(t, nltk) ==
    IF nltk THEN sent_tokenize(t, 1, 1)
    ELSE LET matches == FindSentenceMatches(t, 1, 1)
         IN  IF matches = <<>> THEN << t >> ELSE matches

\* TextChunker._split_by_sentences
_split_by_sentences(t, maxsz, nltk) ==
    IF nltk
    THEN GroupUnits(sent_tokenize(t, 1, 1), 1, <<>>, <<>>, <<" ">>, FALSE, maxsz)
    ELSE LET matches == FindSentenceMatches(t, 1, 1)
         IN  IF matches = <<>> THEN << t >>
             ELSE LET out == GroupUnits(matches, 1, <<>>, <<>>, <<>>, TRUE, maxsz)
                  IN  IF out = <<>> THEN << t >> ELSE out

\* TextChunker._get_overlap_at_word_boundary
_get_overlap_at_word_boundary(t, ovsz) ==
    IF Len(t) <= ovsz THEN t
    ELSE LET overlap == LastChars(t, ovsz)
             last_space == RFindSpace(overlap)
         IN  IF last_space > 0 THEN FirstChars(overlap, last_space) ELSE overlap

\* lines 160-161: the overlap text taken from a chunk
OverlapFrom(chunk, ovsz) ==
    _get_overlap_at_word_boundary(LastChars(chunk, ovsz), ovsz)

\* lines 172-179: the loop over para_chunks[1:-1]; st = [out, overlap_text]
\* (the current_chunk it assigns is overwritten at line 182)
RECURSIVE MiddleChunks(_, _, _, _, _)
MiddleChunks(para_chunks, k, st, maxsz, ovsz) ==
    IF k >= Len(para_chunks) THEN st
    ELSE LET overlap == st.overlap_text \o para_chunks[k]
         IN  IF Len(overlap) > maxsz
             THEN MiddleChunks(para_chunks, k + 1,
                               [chunks |-> Append(st.chunks, overlap),
                                overlap_text |-> OverlapFrom(para_chunks[k], ovsz)],
                               maxsz, ovsz)
             ELSE MiddleChunks(para_chunks, k + 1, st, maxsz, ovsz)

\* lines 145-189: the body of the loop over paragraphs; st = [out, current_chunk]
ParagraphStep(st, para, maxsz, ovsz, nltk) ==
    LET paragraph == Strip(para)
    IN  IF paragraph = <<>> THEN st
        ELSE IF Len(st.current_chunk) + Len(paragraph) + 2 <= maxsz
        THEN [st EXCEPT !.current_chunk =
                 IF st.current_chunk # <<>>
                 THEN st.current_chunk \o <<"\n", "\n">> \o paragraph
                 ELSE paragraph]
        ELSE IF st.current_chunk = <<>> THEN st
        ELSE LET saved == Append(st.chunks, st.current_chunk)
                 overlap_text == OverlapFrom(st.current_chunk, ovsz)
             IN  IF Len(paragraph) > maxsz
                 THEN LET para_chunks == _split_by_sentences(paragraph, maxsz, nltk)
                          n == Len(para_chunks)
                          mid == MiddleChunks(para_chunks, 2,
                                     [chunks |-> Append(saved, overlap_text \o para_chunks[1]),
                                      overlap_text |-> overlap_text],
                                     maxsz, ovsz)
                      IN  [chunks |-> mid.chunks,
                           current_chunk |-> IF n > 1 THEN mid.overlap_text \o para_chunks[n]
                                             ELSE para_chunks[n]]
                 ELSE [chunks |-> saved, current_chunk |-> overlap_text \o paragraph]

RECURSIVE ParagraphLoop(_, _, _, _, _, _)
ParagraphLoop(paragraphs, k, st, maxsz, ovsz, nltk) ==
    IF k > Len(paragraphs) THEN st
    ELSE ParagraphLoop(paragraphs, k + 1,
                       ParagraphStep(st, paragraphs[k], maxsz, ovsz, nltk),
                       maxsz, ovsz, nltk)

\* lines 138-193: the chunk texts collected before they become Chunk objects
ChunkTexts(t, maxsz, ovsz, nltk) ==
    LET st == ParagraphLoop(SplitParagraphs(t, 1, 1), 1,
                            [chunks |-> <<>>, current_chunk |-> <<>>],
                            maxsz, ovsz, nltk)
    IN  IF st.current_chunk # <<>> THEN Append(st.chunks, st.current_chunk) ELSE st.chunks

\* lines 196-222: Chunk objects; a text that strips to nothing is skipped
RECURSIVE ChunkObjects(_, _, _)
ChunkObjects(out, idx, total_chunks) ==
    IF idx >= Len(out) THEN <<>>
    ELSE LET chunk_text == Strip(out[idx + 1])
         IN  (IF chunk_text = <<>> THEN <<>>
              ELSE << [text |-> chunk_text, chunk_index |-> idx,
                       total_chunks |-> total_chunks] >>)
             \o ChunkObjects(out, idx + 1, total_chunks)

\* _split_into_chunks with total_chunks taken before the final chunk is added
\* (a mutation of _split_into_chunks)
_split_into_chunks_early_total(t, maxsz, ovsz, nltk) ==
    LET out == ChunkTexts(t, maxsz, ovsz, nltk)
    IN  ChunkObjects(out, 0, Len(out) - 1)

\* TextChunker._split_into_chunks
_split_into_chunks(t, maxsz, ovsz, nltk) ==
    LET out == ChunkTexts(t, maxsz, ovsz, nltk)
    IN  ChunkObjects(out, 0, Len(out))

\* chunk_document with the short-document test written < instead of <=
\* (a mutation of chunk_document)
chunk_document_strict(t, maxsz, ovsz, nltk) ==
    LET txt == _clean_text(t)
    IN  IF txt = <<>> THEN <<>>
        ELSE IF Len(txt) < maxsz
        THEN << [text |-> txt, chunk_index |-> 0, total_chunks |-> 1] >>
        ELSE _split_into_chunks(txt, maxsz, ovsz, nltk)

\* TextChunker.chunk_document
chunk_document(t, maxsz, ovsz, nltk) ==
    LET txt == _clean_text(t)
    IN  IF txt = <<>> THEN <<>>
        ELSE IF Len(txt) <= maxsz
        THEN << [text |-> txt, chunk_index |-> 0, total_chunks |-> 1] >>
        ELSE _split_into_chunks(txt, maxsz, ovsz, nltk)

\* lines 156-161, as the loop over paragraphs passes them: each time the
\* running buffer is flushed, the buffer and the overlap text taken from it
RECURSIVE FlushLog(_, _, _, _, _, _)
FlushLog(paragraphs, k, st, maxsz, ovsz, nltk) ==
    IF k > Len(paragraphs) THEN <<>>
    ELSE LET next == ParagraphStep(st, paragraphs[k], maxsz, ovsz, nltk)
         IN  (IF Len(next.chunks) > Len(st.chunks)
              THEN << [current_chunk |-> st.current_chunk,
                       overlap_text |-> OverlapFrom(st.current_chunk, ovsz)] >>
              ELSE <<>>)
             \o FlushLog(paragraphs, k + 1, next, maxsz, ovsz, nltk)

\* the flushes of one call of chunk_document (none on the paths that return
\* before _split_into_chunks)
FlushesOf(t, maxsz, ovsz, nltk) ==
    LET txt == _clean_text(t)
    IN  IF txt = <<>> \/ Len(txt) <= maxsz THEN <<>>
        ELSE FlushLog(SplitParagraphs(txt, 1, 1), 1,
                      [chunks |-> <<>>, current_chunk |-> <<>>], maxsz, ovsz, nltk)

DocAlphabet == {"a", "!", " ", "\n"}
DocTexts == SeqsUpTo(DocAlphabet, MaxDocLen)

ChunkInit == /\ text \in DocTexts
             /\ max_chunk_size \in 1..MaxChunkSize
             /\ overlap_size \in 0..MaxOverlap
             /\ use_nltk \in BOOLEAN
             /\ chunks = <<>>
             /\ flushes = <<>>
             /\ cpc = "start"
ChunkIdle == /\ text = <<>>
             /\ max_chunk_size = 0
             /\ overlap_size = 0
             /\ use_nltk = FALSE
             /\ chunks = <<>>
             /\ flushes = <<>>
             /\ cpc = "idle"

\* a call chunker.chunk_document(text, metadata)
ChunkDocument ==
    /\ cpc = "start"
    /\ chunks' = chunk_document(text, max_chunk_size, overlap_size, use_nltk)
    /\ flushes' = FlushesOf(text, max_chunk_size, overlap_size, use_nltk)
    /\ cpc' = "done"
    /\ UNCHANGED <<text, max_chunk_size, overlap_size, use_nltk, hashVars, cleanVars, embedVars>>

(***************************************************************************)
(* embeddings.py: token counting and batching                              *)
(*                                                                         *)
(* A chunk is [text, string_id]; its text is [len, kind]: len characters   *)
(* of prose (four characters to a token under the tokenizer), of dense     *)
(* symbols (one token per character), or of text the tokenizer refuses     *)
(* ("special": it holds a special-token string such as <|endoftext|>, on   *)
(* which encode raises).  A vector is [src, dim]: the index                *)
(* of the request text it embeds and its length; [] is [src |-> -1,        *)
(* dim |-> 0].                                                             *)
(***************************************************************************)
embedding_dimension  == 1536    \* self.embedding_dimension
MaxTokensPerChunk    == 3000    \* if chunk_tokens > 3000
TruncateChars        == 9000    \* chunk.text[:9000]
FallbackCharsPerToken == 3      \* len(text) // 3

Max(a, b) == IF a >= b THEN a ELSE b

\* whether encoding.encode(text) raises
EncodeRaises(txt) == txt.kind = "special"

\* len(encoding.encode(text)) for the kinds of text encode accepts
EncodeLen(txt) ==
    IF txt.kind = "prose" THEN (txt.len + 3) \div 4 ELSE txt.len

\* count_tokens; enc is "tiktoken", or "none" when the encoding failed to
\* load; the fallback is also taken, for the one text, when encode raises
count_tokens(txt, enc) ==
    IF enc # "none" /\ ~EncodeRaises(txt) THEN EncodeLen(txt)
    ELSE Max(1, txt.len \div FallbackCharsPerToken)

\* chunk.text[:9000]
Truncate(txt) == [txt EXCEPT !.len = Min(txt.len, TruncateChars)]

EmptyEmbedding == [src |-> -1, dim |-> 0]

RECURSIVE SumTokens(_, _, _)
SumTokens(cs, k, enc) ==
    IF k > Len(cs) THEN 0 ELSE count_tokens(cs[k].text, enc) + SumTokens(cs, k + 1, enc)

\* EmbeddingsService._create_embedded_chunk_batch
_create_embedded_chunk_batch(cs, enc) ==
    [embedded_chunks |->
        [i \in 1..Len(cs) |->
            [chunk |-> cs[i], embedding |-> EmptyEmbedding,
             numeric_id |-> <<0, 0>>, tokens |-> count_tokens(cs[i].text, enc)]],
     total_tokens |-> SumTokens(cs, 1, enc),
     batch_size |-> Len(cs)]

\* lines 176-186: the chunk as it is batched, truncated when over the cap
CappedChunk(chunk, enc) ==
    IF count_tokens(chunk.text, enc) > MaxTokensPerChunk
    THEN [chunk EXCEPT !.text = Truncate(chunk.text)]
    ELSE chunk

\* line 185 assigns to the caller's Chunk objects: the list passed to
\* _create_batches as the call leaves it
ChunksAfterBatching(cs, enc) == [i \in 1..Len(cs) |-> CappedChunk(cs[i], enc)]

\* lines 188-192: whether the current batch is closed before the chunk is added
\* (written with > for >=: a mutation)
MustFlushOffByOne(st, chunk_tokens, bsz, budget) ==
    /\ (Len(st.current_batch_chunks) > bsz \/ st.current_tokens + chunk_tokens > budget)
    /\ st.current_batch_chunks # <<>>

\* lines 188-192: whether the current batch is closed before the chunk is added
MustFlush(st, chunk_tokens, bsz, budget) ==
    /\ (Len(st.current_batch_chunks) >= bsz \/ st.current_tokens + chunk_tokens > budget)
    /\ st.current_batch_chunks # <<>>

\* lines 174-200: the loop over chunks;
\* st = [batches, current_batch_chunks, current_tokens]
RECURSIVE BatchLoop(_, _, _, _, _, _)
BatchLoop(cs, k, st, bsz, budget, enc) ==
    IF k > Len(cs) THEN st
    ELSE LET chunk == CappedChunk(cs[k], enc)
             chunk_tokens == count_tokens(chunk.text, enc)
             flushed == IF MustFlush(st, chunk_tokens, bsz, budget)
                        THEN [batches |-> Append(st.batches,
                                  _create_embedded_chunk_batch(st.current_batch_chunks, enc)),
                              current_batch_chunks |-> <<>>,
                              current_tokens |-> 0]
                        ELSE st
         IN  BatchLoop(cs, k + 1,
                       [batches |-> flushed.batches,
                        current_batch_chunks |-> Append(flushed.current_batch_chunks, chunk),
                        current_tokens |-> flushed.current_tokens + chunk_tokens],
                       bsz, budget, enc)

\* _create_batches without lines 203-205, the flush of the final batch
\* (a mutation of _create_batches)
_create_batches_no_final_flush(cs, bsz, budget, enc) ==
    BatchLoop(cs, 1,
              [batches |-> <<>>, current_batch_chunks |-> <<>>, current_tokens |-> 0],
              bsz, budget, enc).batches

\* EmbeddingsService._create_batches
_create_batches(cs, bsz, budget, enc) ==
    LET st == BatchLoop(cs, 1,
                        [batches |-> <<>>, current_batch_chunks |-> <<>>, current_tokens |-> 0],
                        bsz, budget, enc)
    IN  IF st.current_batch_chunks # <<>>
        THEN Append(st.batches, _create_embedded_chunk_batch(st.current_batch_chunks, enc))
        ELSE st.batches

(***************************************************************************)
(* embeddings.py: generate_embeddings                                      *)
(*                                                                         *)
(* epc is the coroutine's position: "start" (not yet called), "request"    *)
(* (awaiting the provider, first attempt), "sleep5" (awaiting the 5 s      *)
(* sleep of the RateLimitError handler), "retry_request" (awaiting the     *)
(* provider, second attempt), "delay" (awaiting the inter-batch sleep),    *)
(* "returned", "raised".  Each action is the code between two awaits.      *)
(***************************************************************************)
EmbedTexts ==
    { [len |-> 30, kind |-> "prose"], [len |-> 30, kind |-> "special"],
      [len |-> 9000, kind |-> "prose"], [len |-> 12004, kind |-> "prose"],
      [len |-> 3001, kind |-> "dense"] }
TokenBudgets == {20, 3500}
\* vector lengths the provider may answer with
ProviderDims == {1536, 3072}

\* the chunk at 0-based position i of the input: its string id is "c<i>"
InputChunk(txt, i) == [text |-> txt, string_id |-> <<99, 48 + i>>]

EmbedInit ==
    /\ \E ts \in SeqsUpTo(EmbedTexts, MaxChunks) :
           in_chunks = [i \in 1..Len(ts) |-> InputChunk(ts[i], i - 1)]
    /\ batch_size \in 1..MaxBatchSize
    /\ max_tokens_per_batch \in TokenBudgets
    /\ encoding \in {"tiktoken", "none"}
    /\ batches = <<>>
    /\ batch_idx = 0
    /\ embedded_chunks = <<>>
    /\ epc = "start"
    /\ result = <<>>
    /\ error = "none"
    /\ sends = <<>>
    /\ waits = <<>>
    /\ bad_vector_seen = FALSE
    /\ cancelled_at = "none"
EmbedIdle ==
    /\ in_chunks = <<>>
    /\ batch_size = 0
    /\ max_tokens_per_batch = 0
    /\ encoding = "none"
    /\ batches = <<>>
    /\ batch_idx = 0
    /\ embedded_chunks = <<>>
    /\ epc = "idle"
    /\ result = <<>>
    /\ error = "none"
    /\ sends = <<>>
    /\ waits = <<>>
    /\ bad_vector_seen = FALSE
    /\ cancelled_at = "none"

embedSettings == <<batch_size, max_tokens_per_batch, encoding>>
embedConfig == <<in_chunks, embedSettings>>
otherVars == <<hashVars, cleanVars, chunkVars>>

\* a call service._create_batches(chunks) on its own
CreateBatches ==
    /\ epc = "start"
    /\ batches' = _create_batches(in_chunks, batch_size, max_tokens_per_batch, encoding)
    /\ in_chunks' = ChunksAfterBatching(in_chunks, encoding)
    /\ epc' = "batched"
    /\ UNCHANGED <<embedSettings, batch_idx, embedded_chunks, result, error,
                   sends, waits, bad_vector_seen, cancelled_at, otherVars>>

\* the responses the provider may give to a request of n texts: one vector
\* per text, in request order, each of some length
Responses(n) ==
    { [i \in 1..n |-> [src |-> i - 1, dim |-> dims[i]]] : dims \in [1..n -> ProviderDims] }

\* lines 254-279 without the dimension check (a mutation of _embed_batch)
_embed_batch_unchecked(batch, data) ==
    [raised |-> "none",
     out |-> [i \in 1..Len(batch.embedded_chunks) |->
                 [chunk |-> batch.embedded_chunks[i].chunk,
                  embedding |-> data[i],
                  numeric_id |-> string_to_numeric_id(batch.embedded_chunks[i].chunk.string_id),
                  tokens |-> batch.embedded_chunks[i].tokens]]]

\* _embed_batch attaching the vectors in reverse order
\* (a mutation of _embed_batch)
_embed_batch_reversed(batch, data) ==
    IF \E i \in 1..Len(batch.embedded_chunks) : data[i].dim # embedding_dimension
    THEN [raised |-> "ValueError", out |-> <<>>]
    ELSE [raised |-> "none",
          out |-> [i \in 1..Len(batch.embedded_chunks) |->
                      [chunk |-> batch.embedded_chunks[i].chunk,
                       embedding |-> data[Len(batch.embedded_chunks) + 1 - i],
                       numeric_id |-> string_to_numeric_id(batch.embedded_chunks[i].chunk.string_id),
                       tokens |-> batch.embedded_chunks[i].tokens]]]

\* EmbeddingsService._embed_batch once the provider has answered with data:
\* what it raises and what it returns
_embed_batch(batch, data) ==
    IF \E i \in 1..Len(batch.embedded_chunks) : data[i].dim # embedding_dimension
    THEN [raised |-> "ValueError", out |-> <<>>]
    ELSE [raised |-> "none",
          out |-> [i \in 1..Len(batch.embedded_chunks) |->
                      [chunk |-> batch.embedded_chunks[i].chunk,
                       embedding |-> data[i],
                       numeric_id |-> string_to_numeric_id(batch.embedded_chunks[i].chunk.string_id),
                       tokens |-> batch.embedded_chunks[i].tokens]]]

\* lines 106-127: the call, up to the first request (or the early return)
GenerateEmbeddings ==
    /\ epc = "start"
    /\ IF in_chunks = <<>>
       THEN /\ epc' = "returned"
            /\ UNCHANGED <<in_chunks, batches, sends, waits>>
       ELSE LET bs == _create_batches(in_chunks, batch_size, max_tokens_per_batch, encoding)
            IN  /\ batches' = bs
                /\ in_chunks' = ChunksAfterBatching(in_chunks, encoding)
                /\ sends' = [i \in 1..Len(bs) |-> IF i = 1 THEN 1 ELSE 0]
                /\ waits' = [i \in 1..Len(bs) |-> 0]
                /\ epc' = "request"
    /\ UNCHANGED <<embedSettings, batch_idx, embedded_chunks, result, error,
                   bad_vector_seen, cancelled_at, otherVars>>

\* lines 127-155 (and 139-155 on the retry): the provider answers the request
\* in flight with vectors; the batch is mapped, and the run goes on to the
\* inter-batch sleep, returns, or raises
ProviderAnswers ==
    /\ epc \in {"request", "retry_request"}
    /\ \E data \in Responses(Len(batches[batch_idx + 1].embedded_chunks)) :
         LET got == _embed_batch(batches[batch_idx + 1], data)
         IN  /\ bad_vector_seen' =
                    (bad_vector_seen \/ \E i \in 1..Len(data) : data[i].dim # embedding_dimension)
             /\ IF got.raised # "none"
                THEN /\ epc' = "raised"
                     /\ error' = got.raised
                     /\ UNCHANGED <<embedded_chunks, result>>
                ELSE /\ embedded_chunks' = embedded_chunks \o got.out
                     /\ error' = error
                     /\ IF batch_idx < Len(batches) - 1
                        THEN epc' = "delay" /\ result' = result
                        ELSE epc' = "returned" /\ result' = embedded_chunks \o got.out
    /\ UNCHANGED <<embedConfig, batches, batch_idx, sends, waits, cancelled_at, otherVars>>

\* lines 136-138: the first attempt fails with RateLimitError; the handler
\* starts its 5 s sleep
RateLimitedFirst ==
    /\ epc = "request"
    /\ epc' = "sleep5"
    /\ waits' = [waits EXCEPT ![batch_idx + 1] = @ + 1]
    /\ UNCHANGED <<embedConfig, batches, batch_idx, embedded_chunks, result, error,
                   sends, bad_vector_seen, cancelled_at, otherVars>>

\* line 139 raising RateLimitError again, handled like the first one
\* (a mutation of RateLimitedRetry)
RateLimitedRetryAgain ==
    /\ epc = "retry_request"
    /\ epc' = "sleep5"
    /\ waits' = [waits EXCEPT ![batch_idx + 1] = @ + 1]
    /\ UNCHANGED <<embedConfig, batches, batch_idx, embedded_chunks, result, error,
                   sends, bad_vector_seen, cancelled_at, otherVars>>

\* line 139 raising RateLimitError: inside the handler nothing catches it
RateLimitedRetry ==
    /\ epc = "retry_request"
    /\ epc' = "raised"
    /\ error' = "RateLimitError"
    /\ UNCHANGED <<embedConfig, batches, batch_idx, embedded_chunks, result,
                   sends, waits, bad_vector_seen, cancelled_at, otherVars>>

\* lines 138-139: the 5 s sleep ends and the same batch is sent again
SleepDone ==
    /\ epc = "sleep5"
    /\ epc' = "retry_request"
    /\ sends' = [sends EXCEPT ![batch_idx + 1] = @ + 1]
    /\ UNCHANGED <<embedConfig, batches, batch_idx, embedded_chunks, result, error,
                   waits, bad_vector_seen, cancelled_at, otherVars>>

\* an APIError handled the way a RateLimitError is on the first attempt
\* (a mutation of ProviderFails)
ProviderFailsThenWaits ==
    /\ epc \in {"request", "retry_request"}
    /\ epc' = (IF epc = "request" THEN "sleep5" ELSE "raised")
    /\ error' = "APIError"
    /\ waits' = (IF epc = "request" THEN [waits EXCEPT ![batch_idx + 1] = @ + 1] ELSE waits)
    /\ UNCHANGED <<embedConfig, batches, batch_idx, embedded_chunks, result,
                   sends, bad_vector_seen, cancelled_at, otherVars>>

\* lines 281-283: any other APIError is logged and re-raised, on either attempt
ProviderFails ==
    /\ epc \in {"request", "retry_request"}
    /\ epc' = "raised"
    /\ error' = "APIError"
    /\ UNCHANGED <<embedConfig, batches, batch_idx, embedded_chunks, result,
                   sends, waits, bad_vector_seen, cancelled_at, otherVars>>

\* lines 145-146, 119-127: the inter-batch sleep ends and the next batch is sent
DelayDone ==
    /\ epc = "delay"
    /\ batch_idx' = batch_idx + 1
    /\ sends' = [sends EXCEPT ![batch_idx + 2] = @ + 1]
    /\ epc' = "request"
    /\ UNCHANGED <<embedConfig, batches, embedded_chunks, result, error,
                   waits, bad_vector_seen, cancelled_at, otherVars>>

\* the task is cancelled while the coroutine is suspended: CancelledError is
\* raised at the await it is suspended in, and no handler of
\* generate_embeddings or _embed_batch catches it
Cancel ==
    /\ epc \in {"request", "retry_request", "sleep5", "delay"}
    /\ cancelled_at' = epc
    /\ epc' = "raised"
    /\ error' = "CancelledError"
    /\ UNCHANGED <<embedConfig, batches, batch_idx, embedded_chunks, result,
                   sends, waits, bad_vector_seen, otherVars>>

EmbedNext ==
    \/ GenerateEmbeddings
    \/ ProviderAnswers
    \/ RateLimitedFirst
    \/ RateLimitedRetry
    \/ SleepDone
    \/ ProviderFails
    \/ DelayDone
    \/ Cancel

(***************************************************************************)
(* Specifications                                                          *)
(***************************************************************************)
InitHash  == HashInit /\ CleanIdle /\ ChunkIdle /\ EmbedIdle
InitClean == HashIdle /\ CleanInit /\ ChunkIdle /\ EmbedIdle
InitChunk == HashIdle /\ CleanIdle /\ ChunkInit /\ EmbedIdle
InitEmbed == HashIdle /\ CleanIdle /\ ChunkIdle /\ EmbedInit

SpecHash  == InitHash /\ [][StringToNumericId]_vars
SpecClean == InitClean /\ [][Normalize \/ Renormalize]_vars
SpecChunk == InitChunk /\ [][ChunkDocument]_vars
SpecBatch == InitEmbed /\ [][CreateBatches]_vars
SpecEmbed == InitEmbed /\ [][EmbedNext]_vars

(***************************************************************************)
(* C1: numeric_id(s) is the absolute value of the 32-bit accumulator read  *)
(* as a signed two's-complement integer.                                   *)
(***************************************************************************)
C1_NumericIdIsAbsOfSigned32 ==
    hpc = "done" => numeric_id = AbsSigned32(HashLoop(s, 1, <<0, 0>>))

(***************************************************************************)
(* C2: no chunk returned by chunk_document has more than                   *)
(* max_chunk_size + overlap_size characters, unless a single sentence of   *)
(* the text is by itself longer than max_chunk_size.                       *)
(***************************************************************************)
HasOversizedSentence(t, maxsz, nltk) ==
    LET paragraphs == SplitParagraphs(_clean_text(t), 1, 1)
    IN  \E k \in 1..Len(paragraphs) :
            LET sentences == SentencesOf(Strip(paragraphs[k]), nltk)
            IN  \E j \in 1..Len(sentences) : Len(sentences[j]) > maxsz

C2_ChunkSizeBound ==
    (cpc = "done" /\ ~HasOversizedSentence(text, max_chunk_size, use_nltk))
        => \A i \in 1..Len(chunks) :
               Len(chunks[i].text) <= max_chunk_size + overlap_size

(***************************************************************************)
(* C3: _create_batches never emits a batch with more than batch_size       *)
(* chunks or with more than max_tokens_per_batch tokens, except a batch of *)
(* exactly one chunk whose own token count exceeds max_tokens_per_batch.   *)
(***************************************************************************)
OversizedSingleton(b) ==
    /\ Len(b.embedded_chunks) = 1
    /\ b.embedded_chunks[1].tokens > max_tokens_per_batch

C3_BatchLimits ==
    epc = "batched" =>
        \A k \in 1..Len(batches) :
            /\ Len(batches[k].embedded_chunks) <= batch_size
            /\ batches[k].total_tokens = SumTokens(
                    [i \in 1..Len(batches[k].embedded_chunks) |->
                        batches[k].embedded_chunks[i].chunk], 1, encoding)
            /\ (batches[k].total_tokens <= max_tokens_per_batch
                    \/ OversizedSingleton(batches[k]))

\* batches were built of which one is full by count, one is closed early by
\* the token budget and one is a singleton over the budget
C3_Witness ==
    /\ epc = "batched"
    /\ batch_size >= 2
    /\ \E k \in 1..Len(batches) : Len(batches[k].embedded_chunks) = batch_size
    /\ \E k \in 1..Len(batches) : OversizedSingleton(batches[k])
    /\ \E k \in 1..(Len(batches) - 1) :
           /\ Len(batches[k].embedded_chunks) < batch_size
           /\ ~OversizedSingleton(batches[k])

(***************************************************************************)
(* C4: a rate-limited batch is re-sent exactly once, after the fixed wait; *)
(* a second rate-limit error propagates and ends the run; no batch is sent *)
(* to the provider more than twice.                                        *)
(***************************************************************************)
C4_RetryExactlyOnce ==
    /\ \A i \in 1..Len(sends) :
           /\ sends[i] <= 2
           /\ waits[i] <= 1
           /\ sends[i] = 2 => waits[i] = 1
           /\ (waits[i] = 1 /\ cancelled_at # "sleep5" /\ epc # "sleep5") => sends[i] = 2
    /\ error = "RateLimitError" =>
           /\ epc = "raised"
           /\ sends[batch_idx + 1] = 2
           /\ result = <<>>
    /\ epc = "raised" => ~ENABLED EmbedNext

\* the second batch was rate-limited on both attempts
C4_Witness ==
    /\ error = "RateLimitError"
    /\ batch_idx >= 1
    /\ embedded_chunks # <<>>

(***************************************************************************)
(* C5: once the provider has returned a vector whose length is not the     *)
(* configured dimension, generate_embeddings has raised and the caller has *)
(* no EmbeddedChunk record, also none of the batches completed earlier.    *)
(***************************************************************************)
C5_DimensionMismatchAborts ==
    bad_vector_seen =>
        /\ epc = "raised"
        /\ error = "ValueError"
        /\ result = <<>>

\* a wrong-length vector arrived on the retry of a later batch, after an
\* earlier batch had been embedded
C5_Witness ==
    /\ bad_vector_seen
    /\ error = "ValueError"
    /\ embedded_chunks # <<>>
    /\ waits[batch_idx + 1] = 1

(***************************************************************************)
(* C7: every EmbeddedChunk record that exists at any point of a run has an *)
(* embedding of exactly the configured dimension.                          *)
(***************************************************************************)
C7_EveryRecordHasDimension ==
    /\ \A k \in 1..Len(batches) :
           \A i \in 1..Len(batches[k].embedded_chunks) :
               batches[k].embedded_chunks[i].embedding.dim = embedding_dimension
    /\ \A i \in 1..Len(embedded_chunks) :
           embedded_chunks[i].embedding.dim = embedding_dimension
    /\ \A i \in 1..Len(result) : result[i].embedding.dim = embedding_dimension

(***************************************************************************)
(* C8: after a cancellation observed between two batches no further batch  *)
(* is sent, and the records of the completed batches are what the caller   *)
(* has.                                                                    *)
(***************************************************************************)
C8_CancelBetweenBatchesKeepsRecords ==
    cancelled_at = "delay" =>
        /\ \A i \in (batch_idx + 2)..Len(sends) : sends[i] = 0
        /\ result = embedded_chunks

(***************************************************************************)
(* C12: on every flush the overlap prefix is the last overlap_size         *)
(* characters of the flushed buffer trimmed to a word boundary: it is a    *)
(* part of that window which neither begins nor ends in the middle of a    *)
(* word of the buffer, and it is empty when the window has no space.       *)
(***************************************************************************)
\* does the part of buffer from position a to position b (a <= b) begin or
\* end between two characters of one word
CutsWord(buffer, a, b) ==
    \/ a > 1 /\ buffer[a - 1] \notin Whitespace /\ buffer[a] \notin Whitespace
    \/ b < Len(buffer) /\ buffer[b] \notin Whitespace /\ buffer[b + 1] \notin Whitespace

\* overlap is a part of the last n characters of buffer that cuts no word
WordAlignedPartOfWindow(buffer, overlap, n) ==
    \/ overlap = <<>>
    \/ \E a \in (Len(buffer) - Min(n, Len(buffer)) + 1)..Len(buffer) :
          /\ a + Len(overlap) - 1 <= Len(buffer)
          /\ SubSeq(buffer, a, a + Len(overlap) - 1) = overlap
          /\ ~CutsWord(buffer, a, a + Len(overlap) - 1)

C12_OverlapAtWordBoundary ==
    cpc = "done" =>
        \A f \in 1..Len(flushes) :
            LET window == LastChars(flushes[f].current_chunk,
                                    Min(overlap_size, Len(flushes[f].current_chunk)))
            IN  /\ WordAlignedPartOfWindow(flushes[f].current_chunk,
                                           flushes[f].overlap_text, overlap_size)
                /\ (\A i \in 1..Len(window) : window[i] # " ")
                      => flushes[f].overlap_text = <<>>

(***************************************************************************)
(* C13: for every paragraph longer than max_chunk_size, wherever it        *)
(* stands and whatever the running buffer holds, every sentence group of   *)
(* the paragraph appears, in order, inside the returned chunks.            *)
(***************************************************************************)
IsSubstring(a, b) ==
    \E i \in 0..(Len(b) - Len(a)) : SubSeq(b, i + 1, i + Len(a)) = a

RECURSIVE GroupsInOrder(_, _, _, _)
GroupsInOrder(groups, g, cs, c) ==
    IF g > Len(groups) THEN TRUE
    ELSE IF groups[g] = <<>> THEN GroupsInOrder(groups, g + 1, cs, c)
    ELSE \E c2 \in c..Len(cs) :
            /\ IsSubstring(groups[g], cs[c2].text)
            /\ GroupsInOrder(groups, g + 1, cs, c2)

\* the paragraphs _split_into_chunks sees: those of the cleaned text, when
\* it is longer than max_chunk_size
LongDocParagraphs ==
    LET txt == _clean_text(text)
    IN  IF Len(txt) <= max_chunk_size THEN <<>>
        ELSE LET ps == SplitParagraphs(txt, 1, 1) IN [k \in 1..Len(ps) |-> Strip(ps[k])]

C13_SentenceGroupsKept ==
    cpc = "done" =>
        \A k \in 1..Len(LongDocParagraphs) :
            Len(LongDocParagraphs[k]) > max_chunk_size =>
                GroupsInOrder(_split_by_sentences(LongDocParagraphs[k], max_chunk_size, use_nltk),
                              1, chunks, 1)

(***************************************************************************)
(* C16: chunk_document loses no paragraph: when the cleaned text is longer *)
(* than max_chunk_size, every non-empty paragraph of at most               *)
(* max_chunk_size characters, the first included, is a contiguous part of  *)
(* some returned chunk.                                                    *)
(***************************************************************************)
C16_NoParagraphLost ==
    cpc = "done" =>
        \A k \in 1..Len(LongDocParagraphs) :
            (LongDocParagraphs[k] # <<>> /\ Len(LongDocParagraphs[k]) <= max_chunk_size) =>
                \E c \in 1..Len(chunks) : IsSubstring(LongDocParagraphs[k], chunks[c].text)

(***************************************************************************)
(* C11: the batches partition the input: their chunks, concatenated in     *)
(* batch order, are the chunks of the input list in input order (the i-th  *)
(* is the chunk passed at position i, "c<i-1>"), each once, and no batch   *)
(* is empty.                                                               *)
(***************************************************************************)
RECURSIVE BatchedChunks(_, _)
BatchedChunks(bs, k) ==
    IF k > Len(bs) THEN <<>>
    ELSE [i \in 1..Len(bs[k].embedded_chunks) |-> bs[k].embedded_chunks[i].chunk]
         \o BatchedChunks(bs, k + 1)

C11_BatchesPartitionInput ==
    epc = "batched" =>
        /\ BatchedChunks(batches, 1) = in_chunks
        /\ \A i \in 1..Len(in_chunks) : in_chunks[i].string_id = InputChunk(<<>>, i - 1).string_id
        /\ \A k \in 1..Len(batches) :
               /\ Len(batches[k].embedded_chunks) >= 1
               /\ batches[k].batch_size = Len(batches[k].embedded_chunks)

\* several batches were built, one of them of more than one chunk and the
\* last one a partial batch
C11_Witness ==
    /\ epc = "batched"
    /\ Len(batches) >= 3
    /\ Len(batches[Len(batches)].embedded_chunks) < batch_size
    /\ \E k \in 1..Len(batches) : Len(batches[k].embedded_chunks) >= 2

(***************************************************************************)
(* C17: after _create_batches every chunk placed in a batch has a token    *)
(* count of at most the per-chunk cap, under either token counter.         *)
(***************************************************************************)
C17_BatchedChunksWithinCap ==
    epc = "batched" =>
        \A k \in 1..Len(batches) :
            \A i \in 1..Len(batches[k].embedded_chunks) :
                /\ batches[k].embedded_chunks[i].tokens <= MaxTokensPerChunk
                /\ count_tokens(batches[k].embedded_chunks[i].chunk.text, encoding)
                       <= MaxTokensPerChunk

(***************************************************************************)
(* C14: a run that returns gives exactly one EmbeddedChunk per input       *)
(* chunk, in input order, also when batches were re-sent after a rate      *)
(* limit; the i-th vector of a response is attached to the i-th chunk of   *)
(* the request.                                                            *)
(***************************************************************************)
\* the 0-based position, inside its batch, of each batched chunk
RECURSIVE PositionsInBatch(_, _)
PositionsInBatch(bs, k) ==
    IF k > Len(bs) THEN <<>>
    ELSE [i \in 1..Len(bs[k].embedded_chunks) |-> i - 1] \o PositionsInBatch(bs, k + 1)

C14_OneRecordPerChunkInOrder ==
    epc = "returned" =>
        /\ Len(result) = Len(in_chunks)
        /\ \A i \in 1..Len(result) :
               /\ result[i].chunk = in_chunks[i]
               /\ in_chunks[i].string_id = InputChunk(<<>>, i - 1).string_id
               /\ result[i].embedding.src = PositionsInBatch(batches, 1)[i]
               /\ result[i].embedding.dim = embedding_dimension
               /\ result[i].numeric_id = string_to_numeric_id(in_chunks[i].string_id)

\* a run over several batches returned after two of them were re-sent
C14_Witness ==
    /\ epc = "returned"
    /\ Len(batches) >= 2
    /\ \E k \in 1..Len(batches) : Len(batches[k].embedded_chunks) >= 2
    /\ \E j, k \in 1..Len(batches) : j # k /\ sends[j] = 2 /\ sends[k] = 2

(***************************************************************************)
(* C15: an error of the provider other than a rate limit, on a first       *)
(* attempt or on the retry, propagates at once: the batch is not sent      *)
(* again, no later batch is sent, and no wait is started after it.         *)
(***************************************************************************)
C15_ProviderErrorPropagates ==
    error = "APIError" =>
        /\ epc = "raised"
        /\ ~ENABLED EmbedNext
        /\ result = <<>>
        /\ sends[batch_idx + 1] = waits[batch_idx + 1] + 1
        /\ \A i \in (batch_idx + 2)..Len(sends) : sends[i] = 0

\* the provider failed the retry of a later batch, with batches still to go
C15_Witness ==
    /\ error = "APIError"
    /\ batch_idx >= 1
    /\ waits[batch_idx + 1] = 1
    /\ batch_idx + 1 < Len(batches)

(***************************************************************************)
(* C6: every returned chunk has total_chunks equal to the number of chunks *)
(* returned, and the chunk_index values are 0 .. N-1 in order.             *)
(***************************************************************************)
C6_IndicesAndTotal ==
    cpc = "done" =>
        \A i \in 1..Len(chunks) :
            /\ chunks[i].total_chunks = Len(chunks)
            /\ chunks[i].chunk_index = i - 1

\* a document that was split into three or more chunks
C6_Witness ==
    /\ cpc = "done"
    /\ Len(_clean_text(text)) > max_chunk_size
    /\ Len(chunks) >= 3

(***************************************************************************)
(* C9 as stated: a text whose normalized length is at most max_chunk_size  *)
(* gives exactly one chunk, with chunk_index 0 and total_chunks 1.         *)
(***************************************************************************)
SingleChunk ==
    /\ Len(chunks) = 1
    /\ chunks[1].chunk_index = 0
    /\ chunks[1].total_chunks = 1
    /\ chunks[1].text = _clean_text(text)

C9_ShortTextOneChunk ==
    (cpc = "done" /\ Len(_clean_text(text)) <= max_chunk_size) => SingleChunk

(***************************************************************************)
(* C9 amended: a text whose normalized form is non-empty and at most       *)
(* max_chunk_size long gives exactly one chunk, with chunk_index 0 and     *)
(* total_chunks 1; a text that normalizes to nothing gives no chunk.       *)
(***************************************************************************)
C9_NonEmptyShortTextOneChunk ==
    cpc = "done" =>
        /\ (_clean_text(text) # <<>> /\ Len(_clean_text(text)) <= max_chunk_size)
               => SingleChunk
        /\ _clean_text(text) = <<>> => chunks = <<>>

\* a non-empty text exactly max_chunk_size long after normalization, chunked
C9_Witness ==
    /\ cpc = "done"
    /\ _clean_text(text) # text
    /\ Len(_clean_text(text)) = max_chunk_size
    /\ Len(chunks) = 1

\* a raw text that normalization changed, normalized twice
C10_Witness ==
    /\ passes = 2
    /\ cleaned # raw
    /\ cleaned # <<>>
    /\ \E i \in 1..(Len(cleaned) - 1) : cleaned[i] = "\n" /\ cleaned[i + 1] = "\n"

(***************************************************************************)
(* C10: normalization is idempotent, and the normalized text has no run of *)
(* three or more newlines, no run of two or more spaces and no leading or  *)
(* trailing whitespace.                                                    *)
(***************************************************************************)
NoNewlineRun3(t) ==
    \A i \in 1..(Len(t) - 2) : ~(t[i] = "\n" /\ t[i + 1] = "\n" /\ t[i + 2] = "\n")
NoSpaceRun2(t) ==
    \A i \in 1..(Len(t) - 1) : ~(t[i] = " " /\ t[i + 1] = " ")
NoEdgeWhitespace(t) ==
    t # <<>> => (t[1] \notin Whitespace /\ t[Len(t)] \notin Whitespace)

C10_NormalizeIdempotent ==
    /\ passes >= 1 => /\ NoNewlineRun3(cleaned)
                      /\ NoSpaceRun2(cleaned)
                      /\ NoEdgeWhitespace(cleaned)
    /\ passes = 2 => recleaned = cleaned
====
